---------------------------- MODULE Spec2Model ----------------------------
(***************************************************************************)
(* Model of the tavily search server (src/src/index.ts): the tool-call     *)
(* handler, the result formatter processSearchResults and the code         *)
(* fragment extractor extractCodeBlocks.                                   *)
(*                                                                         *)
(* Text that the code only copies (titles, urls, answers, fixed messages)  *)
(* is a TLA+ string.  Text that the code scans character by character      *)
(* (rawContent, failure messages) is a sequence of characters, each a      *)
(* one-character string, and Str turns it into a string where the code     *)
(* interpolates it.  An optional JavaScript value is None (undefined) or   *)
(* Some(v).                                                                *)
(***************************************************************************)
EXTENDS Integers, Sequences, FiniteSets, TLC

\* ------------------------------------------------------------------ bounds
\* Requests in flight at once (SpecConc).
NumReqs == 3
\* Hits in one provider result set.
MaxHits == 2
\* Tokens in one failure message.
MaxMsgTokens == 2
\* Tokens in one text handed to the extractor (SpecExtract).
MaxTokens == 4

\* ------------------------------------------------------- optional values
None == <<>>
Some(v) == <<v>>
Val(o) == o[1]

\* ------------------------------------------------------------ characters
\* U+0060; SANY does not lex that character inside a string literal.
Backtick == "[U+0060]"

LowerLetters ==
  <<"a","b","c","d","e","f","g","h","i","j","k","l","m",
    "n","o","p","q","r","s","t","u","v","w","x","y","z">>
UpperLetters ==
  <<"A","B","C","D","E","F","G","H","I","J","K","L","M",
    "N","O","P","Q","R","S","T","U","V","W","X","Y","Z">>
Digits == {"0","1","2","3","4","5","6","7","8","9"}

\* \w of the regular expressions
IsWord(c) ==
  \/ \E i \in 1..26 : c = LowerLetters[i] \/ c = UpperLetters[i]
  \/ c \in Digits
  \/ c = "_"

\* \s of the regular expressions, and the characters String.trim removes
IsSpace(c) == c \in {" ", "\n", "\t", "\r", "\f"}

\* [\w\s="'] of the markup pattern
IsTagChar(c) == IsWord(c) \/ IsSpace(c) \/ c \in {"=", "\"", "'"}

\* ---------------------------------------------------------------- strings
RECURSIVE Str(_)
Str(cs) == IF cs = <<>> THEN "" ELSE Head(cs) \o Str(Tail(cs))

RECURSIVE Flatten(_)
Flatten(ts) == IF ts = <<>> THEN <<>> ELSE Head(ts) \o Flatten(Tail(ts))

\* String.prototype.toLowerCase, one character
LowerChar(c) ==
  IF \E i \in 1..26 : c = UpperLetters[i]
  THEN LowerLetters[CHOOSE i \in 1..26 : c = UpperLetters[i]]
  ELSE c

toLowerCase(s) == [i \in 1..Len(s) |-> LowerChar(s[i])]

\* s has w at position i
HasAt(s, w, i) ==
  /\ i >= 1
  /\ i + Len(w) - 1 <= Len(s)
  /\ \A j \in 1..Len(w) : s[i + j - 1] = w[j]

RECURSIVE IndexOfFrom(_, _, _)
IndexOfFrom(s, w, i) ==
  IF i + Len(w) - 1 > Len(s) THEN 0
  ELSE IF HasAt(s, w, i) THEN i
  ELSE IndexOfFrom(s, w, i + 1)

\* String.prototype.includes
includes(s, w) == IndexOfFrom(s, w, 1) # 0

RECURSIVE TrimStart(_)
TrimStart(s) ==
  IF s # <<>> /\ IsSpace(Head(s)) THEN TrimStart(Tail(s)) ELSE s

RECURSIVE TrimEnd(_)
TrimEnd(s) ==
  IF s # <<>> /\ IsSpace(s[Len(s)]) THEN TrimEnd(SubSeq(s, 1, Len(s) - 1)) ELSE s

\* String.prototype.trim
trim(s) == TrimEnd(TrimStart(s))

\* Array.prototype.join("\n") over strings
RECURSIVE join(_)
join(lines) ==
  IF lines = <<>> THEN ""
  ELSE IF Len(lines) = 1 THEN lines[1]
  ELSE lines[1] \o "\n" \o join(Tail(lines))

\* --------------------------------------------------- extractCodeBlocks
\* Positions are 1-based; lastIndex counts the characters already consumed,
\* as RegExp.lastIndex does.

\* first position >= i that satisfies none of P, i.e. the end of a run
RECURSIVE WordRunEnd(_, _)
WordRunEnd(s, i) ==
  IF i <= Len(s) /\ IsWord(s[i]) THEN WordRunEnd(s, i + 1) ELSE i

RECURSIVE TagRunEnd(_, _)
TagRunEnd(s, i) ==
  IF i <= Len(s) /\ IsTagChar(s[i]) THEN TagRunEnd(s, i + 1) ELSE i

Fence == <<Backtick, Backtick, Backtick>>

NoMatch == [found |-> FALSE, end |-> 0, g1 |-> None, g2 |-> None]

\* ```(?:\w+\n)?([\s\S]*?)```  tried at position i
FencedAt(s, i) ==
  IF ~HasAt(s, Fence, i) THEN NoMatch
  ELSE
    LET w      == WordRunEnd(s, i + 3)
        tagged == w > i + 3 /\ w <= Len(s) /\ s[w] = "\n"
        afterT == w + 1
        closeT == IF tagged THEN IndexOfFrom(s, Fence, afterT) ELSE 0
        close  == IndexOfFrom(s, Fence, i + 3)
    IN  IF closeT # 0
        THEN [found |-> TRUE, end |-> closeT + 2,
              g1 |-> Some(SubSeq(s, afterT, closeT - 1)), g2 |-> None]
        ELSE IF close # 0
        THEN [found |-> TRUE, end |-> close + 2,
              g1 |-> Some(SubSeq(s, i + 3, close - 1)), g2 |-> None]
        ELSE NoMatch

\* `([^`]+)`  tried at position i
InlineAt(s, i) ==
  IF ~HasAt(s, <<Backtick>>, i) THEN NoMatch
  ELSE
    LET close == IndexOfFrom(s, <<Backtick>>, i + 1)
    IN  IF close > i + 1
        THEN [found |-> TRUE, end |-> close,
              g1 |-> None, g2 |-> Some(SubSeq(s, i + 1, close - 1))]
        ELSE NoMatch

\* codeBlockRegex tried at position i: the fenced alternative first
CodeBlockAt(s, i) ==
  IF FencedAt(s, i).found THEN FencedAt(s, i) ELSE InlineAt(s, i)

\* codeBlockRegex.exec(content) with the given lastIndex: leftmost match
RECURSIVE codeBlockExec(_, _)
codeBlockExec(s, lastIndex) ==
  IF lastIndex >= Len(s) THEN NoMatch
  ELSE IF CodeBlockAt(s, lastIndex + 1).found THEN CodeBlockAt(s, lastIndex + 1)
  ELSE codeBlockExec(s, lastIndex + 1)

\* const block = match[1] || match[2]
MatchBlock(m) ==
  IF m.g1 # None /\ Val(m.g1) # <<>> THEN m.g1 ELSE m.g2

\* if (block && block.trim()) blocks.push(block.trim())
PushBlock(blocks, m) ==
  LET block == MatchBlock(m)
  IN  IF block # None /\ Val(block) # <<>> /\ trim(Val(block)) # <<>>
      THEN Append(blocks, trim(Val(block)))
      ELSE blocks

Keywords ==
  << <<"c","o","n","s","t">>, <<"l","e","t">>, <<"v","a","r">>,
     <<"f","u","n","c","t","i","o","n">>, <<"c","l","a","s","s">>,
     <<"i","m","p","o","r","t">>, <<"e","x","p","o","r","t">> >>

Hooks ==
  << <<"u","s","e","E","f","f","e","c","t">>, <<"u","s","e","S","t","a","t","e">>,
     <<"u","s","e","C","a","l","l","b","a","c","k">>, <<"u","s","e","M","e","m","o">> >>

\* length of the first alternative of words that s has at i, 0 when none
AltLen(words, s, i) ==
  IF \E k \in 1..Len(words) : HasAt(s, words[k], i)
  THEN Len(words[CHOOSE k \in 1..Len(words) :
                   /\ HasAt(s, words[k], i)
                   /\ \A j \in 1..(k - 1) : ~HasAt(s, words[j], i)])
  ELSE 0

IsTerminator(s, i) == i >= 1 /\ i <= Len(s) /\ s[i] \in {";", "}"}

RECURSIVE FirstTerminator(_, _)
FirstTerminator(s, i) ==
  IF i > Len(s) THEN 0
  ELSE IF IsTerminator(s, i) THEN i
  ELSE FirstTerminator(s, i + 1)

\* first k >= i with ")" at k and a terminator at k + 1
RECURSIVE FirstCallClose(_, _)
FirstCallClose(s, i) ==
  IF i + 1 > Len(s) THEN 0
  ELSE IF s[i] = ")" /\ IsTerminator(s, i + 1) THEN i + 1
  ELSE FirstCallClose(s, i + 1)

\* <\/[\w]+>  tried at position i: the position of its ">" or 0
CloseTagAt(s, i) ==
  IF HasAt(s, <<"<", "/">>, i)
  THEN LET w == WordRunEnd(s, i + 2)
       IN  IF w > i + 2 /\ w <= Len(s) /\ s[w] = ">" THEN w ELSE 0
  ELSE 0

RECURSIVE FirstCloseTag(_, _)
FirstCloseTag(s, i) ==
  IF i > Len(s) THEN 0
  ELSE IF CloseTagAt(s, i) # 0 THEN CloseTagAt(s, i)
  ELSE FirstCloseTag(s, i + 1)

\* codeLikePatterns[p] tried at position i: the position of the last
\* character of the match, or 0
CodeLikeAt(p, s, i) ==
  CASE p = 1 ->
         LET n == AltLen(Keywords, s, i)
         IN  IF n = 0 THEN 0 ELSE FirstTerminator(s, i + n)
    [] p = 2 ->
         LET n == AltLen(Hooks, s, i)
         IN  IF n = 0 \/ ~HasAt(s, <<"(">>, i + n) THEN 0
             ELSE FirstCallClose(s, i + n + 1)
    [] p = 3 ->
         IF ~HasAt(s, <<"<">>, i) THEN 0
         ELSE LET t == TagRunEnd(s, i + 1)
              IN  IF t > i + 1 /\ t <= Len(s) /\ s[t] = ">"
                  THEN FirstCloseTag(s, t + 1)
                  ELSE 0

\* content.match(codeLikePatterns[p]) from position i on: every match,
\* leftmost first, none overlapping
RECURSIVE codeLikeMatches(_, _, _)
codeLikeMatches(p, s, i) ==
  IF i > Len(s) THEN <<>>
  ELSE IF CodeLikeAt(p, s, i) # 0
  THEN <<SubSeq(s, i, CodeLikeAt(p, s, i))>>
         \o codeLikeMatches(p, s, CodeLikeAt(p, s, i) + 1)
  ELSE codeLikeMatches(p, s, i + 1)

NumPatterns == 3

\* the while loop over codeBlockRegex.exec
RECURSIVE ScanBlocks(_, _, _)
ScanBlocks(s, lastIndex, blocks) ==
  LET m == codeBlockExec(s, lastIndex)
  IN  IF m.found THEN ScanBlocks(s, m.end, PushBlock(blocks, m)) ELSE blocks

\* the for loop over codeLikePatterns
RECURSIVE HeuristicBlocks(_, _, _)
HeuristicBlocks(s, p, blocks) ==
  IF p > NumPatterns THEN blocks
  ELSE HeuristicBlocks(s, p + 1, blocks \o codeLikeMatches(p, s, 1))

\* if (blocks.length === 0)
RunHeuristicsAlways(blocks) == TRUE
RunHeuristics(blocks) == Len(blocks) = 0

extractCodeBlocks(content) ==
  LET blocks == ScanBlocks(content, 0, <<>>)
  IN  IF RunHeuristics(blocks) THEN HeuristicBlocks(content, 1, blocks) ELSE blocks

\* ------------------------------------------------ processSearchResults
\* JavaScript truthiness of an optional string / optional character text
TruthyStr(o) == o # None /\ Val(o) # ""
TruthyText(o) == o # None /\ Val(o) # <<>>

NoResultsFound ==
  "No results were found for your query. Please try a different search term."
NothingRelevant ==
  "The search was completed but no relevant information was found. Please try refining your query."

Categories == {"code", "docs", "debug", "learn"}

\* responseText.push("\nCode:"); responseText.push(block.trim()) per block
RECURSIVE CodeLines(_)
CodeLines(codeBlocks) ==
  IF codeBlocks = <<>> THEN <<>>
  ELSE <<"\nCode:", Str(trim(Head(codeBlocks)))>> \o CodeLines(Tail(codeBlocks))

\* `Example ${index + 1}:`, index counted from 0
ExampleLabelZeroBased(index) == "Example " \o ToString(index) \o ":"
ExampleLabel(index) == "Example " \o ToString(index + 1) \o ":"

\* the lines one hit adds, index counted from 0 as forEach does
CodeHit(result, index) ==
  <<ExampleLabel(index), "Source: " \o result.url>>
    \o (IF TruthyText(result.rawContent)
        THEN CodeLines(extractCodeBlocks(Val(result.rawContent)))
        ELSE <<>>)
    \o (IF TruthyStr(result.content)
        THEN <<"\nDescription:", Val(result.content)>>
        ELSE <<>>)
    \o <<"">>

DocsHit(result, index) ==
  <<result.title, "Source: " \o result.url>>
    \o (IF TruthyStr(result.content)
        THEN <<"\nDetails:", Val(result.content)>>
        ELSE <<>>)
    \o <<"">>

DebugHit(result, index) ==
  <<"Solution " \o ToString(index + 1) \o ":",
    "Context: " \o result.title, "Source: " \o result.url>>
    \o (IF TruthyStr(result.content)
        THEN <<"\nFix:", Val(result.content)>>
        ELSE <<>>)
    \o <<"">>

LearnHit(result, index) ==
  <<result.title, "Source: " \o result.url>>
    \o (IF TruthyStr(result.content)
        THEN <<"\nKey Points:", Val(result.content)>>
        ELSE <<>>)
    \o <<"">>

HitLines(type, result, index) ==
  CASE type = "code"  -> CodeHit(result, index)
    [] type = "docs"  -> DocsHit(result, index)
    [] type = "debug" -> DebugHit(result, index)
    [] type = "learn" -> LearnHit(result, index)

\* results.results.forEach(...), from the hit at 0-based index on
RECURSIVE ForEachHit(_, _, _)
ForEachHit(type, hits, index) ==
  IF index >= Len(hits) THEN <<>>
  ELSE HitLines(type, hits[index + 1], index) \o ForEachHit(type, hits, index + 1)

Header(type) ==
  CASE type = "code"  -> "Code Examples & Implementation:\n"
    [] type = "docs"  -> "Technical Documentation:\n"
    [] type = "debug" -> "Debugging Solutions:\n"
    [] type = "learn" -> "Learning Resources:\n"

AnswerLabel(type) ==
  CASE type = "code"  -> "Overview:"
    [] type = "docs"  -> "Quick Reference:"
    [] type = "debug" -> "Quick Solution:"
    [] type = "learn" -> "Overview:"

\* responseText after the switch; res is the result set object
SwitchLines(res, type) ==
  IF type \notin Categories THEN <<>>
  ELSE <<Header(type)>>
         \o (IF TruthyStr(res.answer)
             THEN <<AnswerLabel(type), Val(res.answer) \o "\n">>
             ELSE <<>>)
         \o (IF res.results # None
             THEN ForEachHit(type, Val(res.results), 0)
             ELSE <<>>)

\* if (!results)
ResultsMissingNever(results) == FALSE
ResultsMissing(results) == results = None

\* the local responseText when processSearchResults returns
ResponseLines(results, type) ==
  IF ResultsMissing(results) THEN <<>> ELSE SwitchLines(Val(results), type)

processSearchResults(results, type) ==
  IF ResultsMissing(results)
  THEN [type |-> "text", text |-> NoResultsFound]
  ELSE IF Len(ResponseLines(results, type)) = 0
  THEN [type |-> "text", text |-> NothingRelevant]
  ELSE [type |-> "text", text |-> join(ResponseLines(results, type))]

\* ------------------------------------------------------ the tool handler
InvalidArgumentsText ==
  "Error: Invalid arguments. A 'query' parameter is required."
AuthenticationText ==
  "Authentication error occurred. Please check the API key configuration."
RateLimitText ==
  "Rate limit exceeded. Please wait a moment before trying again."
UnexpectedPrefix ==
  "An unexpected error occurred during the search. Please try again later. Error: "

UnknownToolText(name) ==
  "Error: Unknown tool '" \o name \o "'. Only 'search' is supported."

\* request.params.arguments: kind is what typeof and ! see, fields the
\* object's own properties
HasField(args, f) == args.kind = "object" /\ f \in DOMAIN args.fields

\* if (!args || typeof args !== 'object' || !('query' in args))
InvalidArgumentsNoIn(args) ==
  \/ args.kind \in {"undefined", "null"}
  \/ args.kind # "object"
InvalidArguments(args) ==
  \/ args.kind \in {"undefined", "null"}
  \/ args.kind # "object"
  \/ ~HasField(args, "query")

\* const query = args.query as string
QueryOf(args) ==
  IF HasField(args, "query") THEN Some(args.fields.query) ELSE None

\* const type = args.type || "code"
TypeOf(args) ==
  IF HasField(args, "type") /\ args.fields.type # ""
  THEN args.fields.type
  ELSE "code"

baseOptions ==
  [searchDepth |-> "advanced", includeAnswer |-> TRUE, includeRawContent |-> TRUE]

\* { ...baseOptions, <overrides> } of the case that type selects
SearchOptionsDocsDepthLost(type) ==
  CASE type = "code"  -> [maxResults |-> 3] @@ baseOptions
    [] type = "docs"  -> [maxResults |-> 2] @@ baseOptions
    [] type = "debug" -> [maxResults |-> 5] @@ baseOptions
    [] type = "learn" -> [maxResults |-> 3, searchDepth |-> "basic"] @@ baseOptions
SearchOptions(type) ==
  CASE type = "code"  -> [maxResults |-> 3] @@ baseOptions
    [] type = "docs"  -> [maxResults |-> 2, searchDepth |-> "basic"] @@ baseOptions
    [] type = "debug" -> [maxResults |-> 5] @@ baseOptions
    [] type = "learn" -> [maxResults |-> 3, searchDepth |-> "basic"] @@ baseOptions

\* A thrown value: an Error with a message, a string, null or undefined.
ErrorObject(message) == [kind |-> "Error", message |-> message]
ThrownString(s) == [kind |-> "string", message |-> s]
ThrownNull == [kind |-> "null", message |-> <<>>]
ThrownUndefined == [kind |-> "undefined", message |-> <<>>]

\* reading error.message throws a TypeError for null and undefined
MessageReadThrows(error) == error.kind \in {"null", "undefined"}

\* String(error)
StringOf(error) ==
  CASE error.kind = "string" -> error.message
    [] error.kind = "Error" ->
         IF error.message = <<>> THEN <<"E","r","r","o","r">>
         ELSE <<"E","r","r","o","r",":"," ">> \o error.message

\* const errorMessage = error.message || String(error)
ErrorMessageOf(error) ==
  IF error.kind = "Error" /\ error.message # <<>>
  THEN error.message
  ELSE StringOf(error)

ApiKeyWord == <<"a","p","i","_","k","e","y">>
RateLimitWord == <<"r","a","t","e"," ","l","i","m","i","t">>

\* the if / else if / fall-through of the catch block
ErrorTextRateLimitFirst(errorMessage) ==
  IF includes(toLowerCase(errorMessage), RateLimitWord) THEN RateLimitText
  ELSE IF includes(toLowerCase(errorMessage), ApiKeyWord) THEN AuthenticationText
  ELSE UnexpectedPrefix \o Str(errorMessage)
ErrorText(errorMessage) ==
  IF includes(toLowerCase(errorMessage), ApiKeyWord) THEN AuthenticationText
  ELSE IF includes(toLowerCase(errorMessage), RateLimitWord) THEN RateLimitText
  ELSE UnexpectedPrefix \o Str(errorMessage)

TextResponse(text) == [content |-> <<[type |-> "text", text |-> text]>>]

\* the promise tvly.search returned
NoPromise == [state |-> "none"]
Pending == [state |-> "pending"]
Fulfilled(value) == [state |-> "fulfilled", value |-> value]
Rejected(error) == [state |-> "rejected", error |-> error]

\* what the handler sees of a promise object it did not wait for: an object
\* with neither answer nor results
PromiseObject == Some([answer |-> None, results |-> None])

\* results = await tvly.search(...): the continuation runs once the promise
\* has settled
AwaitMissing(p) == TRUE
Await(p) == p.state \in {"fulfilled", "rejected"}

\* const query, const type, let results: bindings of one handler invocation
LocalsShared(r) == 1
Locals(r) == r

\* ------------------------------------------------------------------ state
VARIABLES
  tvly,             \* the provider client, created once at startup
  pc,               \* per request: where its handler invocation stands
  params,           \* per request: request.params
  query,            \* per invocation: const query
  type,             \* per invocation: const type
  results,          \* per invocation: let results
  promise,          \* per request: the promise tvly.search returned
  processedResults, \* per request: const processedResults
  responseText,     \* per request: responseText of its processSearchResults call
  response,         \* per request: the value the handler returned
  calls,            \* per request: the tvly.search calls made, in order
  events,           \* per request: what happened to it so far, in order
  content,          \* extractCodeBlocks: its argument
  lastIndex,        \* extractCodeBlocks: codeBlockRegex.lastIndex
  blocks,           \* extractCodeBlocks: const blocks
  scanned,          \* extractCodeBlocks: blocks as the length test sees it
  patternIdx,       \* extractCodeBlocks: patterns of codeLikePatterns applied
  epc               \* extractCodeBlocks: where the call stands

handlerVars ==
  <<tvly, pc, params, query, type, results, promise, processedResults,
    responseText, response, calls, events>>
extractVars == <<content, lastIndex, blocks, scanned, patternIdx, epc>>
vars == <<handlerVars, extractVars>>

\* ----------------------------------------------------------------- inputs
Tick == <<Backtick>>
TokLet == <<"l","e","t"," ","x",";">>
TokTag == <<"j","s","\n">>
TokMarkup == <<"<","a",">","b","<","/","a",">">>
TokHook == <<"u","s","e","M","e","m","o","(","x",")",";">>
TokInline == <<Backtick, "y", Backtick>>

ExtractTokens == {Tick, Fence, TokTag, TokLet, <<" ">>, TokInline, TokMarkup, TokHook}

ExtractTexts ==
  {Flatten(ts) : ts \in UNION {[1..n -> ExtractTokens] : n \in 0..MaxTokens}}

\* "```js\nlet x;``` `y`": a tagged fence and an inline span
RawFenced == Flatten(<<Fence, TokTag, TokLet, Fence, <<" ">>, Tick, <<"y">>, Tick>>)
\* "let x; <a>b</a>": no delimiter, two heuristic matches
RawPlain == Flatten(<<TokLet, <<" ">>, TokMarkup>>)

Hits ==
  { [url |-> "https://a.dev", title |-> "A",
     content |-> Some("Summary."), rawContent |-> Some(RawFenced)],
    [url |-> "https://b.dev", title |-> "B",
     content |-> None, rawContent |-> Some(RawPlain)],
    [url |-> "https://c.dev", title |-> "C",
     content |-> Some(""), rawContent |-> None],
    [url |-> "https://d.dev", title |-> "D",
     content |-> Some("Summary."), rawContent |-> Some(<<>>)] }

HitLists == UNION {[1..n -> Hits] : n \in 0..MaxHits}

\* what tvly.search can resolve to: nothing, or a result set
ResultSets ==
  {None}
    \cup {Some([answer |-> a, results |-> Some(hs)]) :
            a \in {None, Some(""), Some("Use useEffect.")}, hs \in HitLists}
    \cup {Some([answer |-> Some("Use useEffect."), results |-> None])}

MsgTokens ==
  { <<"I","n","v","a","l","i","d"," ","a","p","i","_","k","e","y">>,
    <<" ","p","r","o","v","i","d","e","d">>,
    <<"A","P","I","_","K","E","Y">>,
    <<"R","a","t","e"," ","l","i","m","i","t">>,
    <<" ","r","e","a","c","h","e","d">>,
    <<"t","i","m","e","o","u","t">> }

Messages ==
  {Flatten(ts) : ts \in UNION {[1..n -> MsgTokens] : n \in 0..MaxMsgTokens}}

\* what tvly.search can reject with
ThrownValues ==
  {ErrorObject(m) : m \in Messages}
    \cup {ThrownString(m) : m \in {Flatten(<<t>>) : t \in MsgTokens}}
    \cup {ThrownNull, ThrownUndefined}

ObjectArgs(fields) == [kind |-> "object", fields |-> fields]
NonObjectArgs == {[kind |-> k, fields |-> <<>>] : k \in {"undefined", "null", "string"}}

TypeValues == {"", "code", "docs", "debug", "learn", "news", "CODE"}

Arguments ==
  NonObjectArgs
    \cup {ObjectArgs(<<>>), ObjectArgs([type |-> "docs"])}
    \cup {ObjectArgs([query |-> "react hooks"])}
    \cup {ObjectArgs([query |-> "react hooks", type |-> t]) : t \in TypeValues}

OtherToolNames == {"fetch"}

\* inputs of the runs with several requests in flight
ConcArguments ==
  { ObjectArgs(<<>>),
    ObjectArgs([query |-> "react hooks", type |-> "docs"]),
    ObjectArgs([query |-> "react hooks"]) }
ConcHit == CHOOSE h \in Hits : h.title = "A"
ConcResultSets ==
  { Some([answer |-> None, results |-> Some(<<>>)]),
    Some([answer |-> Some("Use useEffect."), results |-> Some(<<ConcHit>>)]) }
ConcThrownValues ==
  {ErrorObject(<<"R","a","t","e"," ","l","i","m","i","t">>)}

\* ------------------------------------------------------------------- Init
InitHandler(n) ==
  /\ tvly = [apiKey |-> "TAVILY_API_KEY"]
  /\ pc = [r \in 1..n |-> "idle"]
  /\ params = [r \in 1..n |-> None]
  /\ query = [r \in 1..n |-> None]
  /\ type = [r \in 1..n |-> None]
  /\ results = [r \in 1..n |-> None]
  /\ promise = [r \in 1..n |-> NoPromise]
  /\ processedResults = [r \in 1..n |-> None]
  /\ responseText = [r \in 1..n |-> <<>>]
  /\ response = [r \in 1..n |-> None]
  /\ calls = [r \in 1..n |-> <<>>]
  /\ events = [r \in 1..n |-> <<>>]

ExtractIdle ==
  /\ content = <<>>
  /\ lastIndex = 0
  /\ blocks = <<>>
  /\ scanned = <<>>
  /\ patternIdx = 0
  /\ epc = "off"

\* one request
Init == InitHandler(1) /\ ExtractIdle

\* NumReqs requests
InitConc == InitHandler(NumReqs) /\ ExtractIdle

\* one call of extractCodeBlocks
InitExtract ==
  /\ InitHandler(0)
  /\ content \in ExtractTexts
  /\ lastIndex = 0
  /\ blocks = <<>>
  /\ scanned = <<>>
  /\ patternIdx = 0
  /\ epc = "scan"

\* ---------------------------------------------------------------- handler
Reqs == DOMAIN pc

\* if (name !== "search") return the unknown-tool text
HandleUnknownTool(r, name, args) ==
  /\ pc[r] = "idle"
  /\ name # "search"
  /\ params' = [params EXCEPT ![r] = Some([name |-> name, arguments |-> args])]
  /\ response' = [response EXCEPT ![r] = Some(TextResponse(UnknownToolText(name)))]
  /\ events' = [events EXCEPT ![r] = <<"validate", "respond">>]
  /\ pc' = [pc EXCEPT ![r] = "done"]
  /\ UNCHANGED <<tvly, query, type, results, promise, processedResults,
                 responseText, calls, extractVars>>

\* name is "search" and the arguments fail the check
HandleInvalidArguments(r, args) ==
  /\ pc[r] = "idle"
  /\ InvalidArguments(args)
  /\ params' = [params EXCEPT ![r] = Some([name |-> "search", arguments |-> args])]
  /\ response' = [response EXCEPT ![r] = Some(TextResponse(InvalidArgumentsText))]
  /\ events' = [events EXCEPT ![r] = <<"validate", "respond">>]
  /\ pc' = [pc EXCEPT ![r] = "done"]
  /\ UNCHANGED <<tvly, query, type, results, promise, processedResults,
                 responseText, calls, extractVars>>

\* the switch has a case for type: tvly.search is called and awaited
StartSearch(r, args) ==
  /\ pc[r] = "idle"
  /\ ~InvalidArguments(args)
  /\ TypeOf(args) \in Categories
  /\ params' = [params EXCEPT ![r] = Some([name |-> "search", arguments |-> args])]
  /\ query' = [query EXCEPT ![Locals(r)] = QueryOf(args)]
  /\ type' = [type EXCEPT ![Locals(r)] = Some(TypeOf(args))]
  /\ results' = [results EXCEPT ![Locals(r)] = None]
  /\ calls' = [calls EXCEPT ![r] =
                 Append(@, [query |-> QueryOf(args), options |-> SearchOptions(TypeOf(args))])]
  /\ promise' = [promise EXCEPT ![r] = Pending]
  /\ events' = [events EXCEPT ![r] = <<"validate", "call">>]
  /\ pc' = [pc EXCEPT ![r] = "await_search"]
  /\ UNCHANGED <<tvly, processedResults, responseText, response, extractVars>>

\* the switch has no case for type: results stays undefined and
\* processSearchResults runs at once
StartNoCase(r, args) ==
  /\ pc[r] = "idle"
  /\ ~InvalidArguments(args)
  /\ TypeOf(args) \notin Categories
  /\ params' = [params EXCEPT ![r] = Some([name |-> "search", arguments |-> args])]
  /\ query' = [query EXCEPT ![Locals(r)] = QueryOf(args)]
  /\ type' = [type EXCEPT ![Locals(r)] = Some(TypeOf(args))]
  /\ results' = [results EXCEPT ![Locals(r)] = None]
  /\ processedResults' =
       [processedResults EXCEPT ![r] = Some(processSearchResults(None, TypeOf(args)))]
  /\ responseText' = [responseText EXCEPT ![r] = ResponseLines(None, TypeOf(args))]
  /\ events' = [events EXCEPT ![r] = <<"validate", "format">>]
  /\ pc' = [pc EXCEPT ![r] = "await_format"]
  /\ UNCHANGED <<tvly, promise, response, calls, extractVars>>

\* the provider resolves the promise
ProviderFulfil(r, value) ==
  /\ promise[r].state = "pending"
  /\ promise' = [promise EXCEPT ![r] = Fulfilled(value)]
  /\ events' = [events EXCEPT ![r] = Append(@, "resolved")]
  /\ UNCHANGED <<tvly, pc, params, query, type, results, processedResults,
                 responseText, response, calls, extractVars>>

\* the provider rejects the promise
ProviderReject(r, error) ==
  /\ promise[r].state = "pending"
  /\ promise' = [promise EXCEPT ![r] = Rejected(error)]
  /\ events' = [events EXCEPT ![r] = Append(@, "rejected")]
  /\ UNCHANGED <<tvly, pc, params, query, type, results, processedResults,
                 responseText, response, calls, extractVars>>

\* results = <the resolved value>; processSearchResults(results, type)
ResumeSearch(r) ==
  /\ pc[r] = "await_search"
  /\ Await(promise[r])
  /\ promise[r].state # "rejected"
  /\ LET value == IF promise[r].state = "fulfilled" THEN promise[r].value
                  ELSE PromiseObject
         t     == Val(type[Locals(r)])
     IN  /\ results' = [results EXCEPT ![Locals(r)] = value]
         /\ processedResults' =
              [processedResults EXCEPT ![r] = Some(processSearchResults(value, t))]
         /\ responseText' = [responseText EXCEPT ![r] = ResponseLines(value, t)]
  /\ events' = [events EXCEPT ![r] = Append(@, "format")]
  /\ pc' = [pc EXCEPT ![r] = "await_format"]
  /\ UNCHANGED <<tvly, params, query, type, promise, response, calls, extractVars>>

\* return { content: [processedResults] }
ReturnResult(r) ==
  /\ pc[r] = "await_format"
  /\ response' = [response EXCEPT ![r] = Some([content |-> <<Val(processedResults[r])>>])]
  /\ events' = [events EXCEPT ![r] = Append(@, "respond")]
  /\ pc' = [pc EXCEPT ![r] = "done"]
  /\ UNCHANGED <<tvly, params, query, type, results, promise, processedResults,
                 responseText, calls, extractVars>>

\* catch (error): the message is read and classified
CatchError(r) ==
  /\ pc[r] = "await_search"
  /\ promise[r].state = "rejected"
  /\ ~MessageReadThrows(promise[r].error)
  /\ response' = [response EXCEPT ![r] =
                    Some(TextResponse(ErrorText(ErrorMessageOf(promise[r].error))))]
  /\ events' = [events EXCEPT ![r] = Append(@, "respond")]
  /\ pc' = [pc EXCEPT ![r] = "done"]
  /\ UNCHANGED <<tvly, params, query, type, results, promise, processedResults,
                 responseText, calls, extractVars>>

\* catch (error): error.message throws, the handler's promise rejects
CatchThrows(r) ==
  /\ pc[r] = "await_search"
  /\ promise[r].state = "rejected"
  /\ MessageReadThrows(promise[r].error)
  /\ events' = [events EXCEPT ![r] = Append(@, "throw")]
  /\ pc' = [pc EXCEPT ![r] = "threw"]
  /\ UNCHANGED <<tvly, params, query, type, results, promise, processedResults,
                 responseText, response, calls, extractVars>>

\* -------------------------------------------------- extractCodeBlocks run
\* one iteration of the while loop
ScanMatch ==
  /\ epc = "scan"
  /\ codeBlockExec(content, lastIndex).found
  /\ blocks' = PushBlock(blocks, codeBlockExec(content, lastIndex))
  /\ lastIndex' = codeBlockExec(content, lastIndex).end
  /\ UNCHANGED <<handlerVars, content, scanned, patternIdx, epc>>

\* exec returns null: the loop ends
ScanEnd ==
  /\ epc = "scan"
  /\ ~codeBlockExec(content, lastIndex).found
  /\ lastIndex' = 0
  /\ scanned' = blocks
  /\ epc' = "check"
  /\ UNCHANGED <<handlerVars, content, blocks, patternIdx>>

EnterHeuristics ==
  /\ epc = "check"
  /\ RunHeuristics(blocks)
  /\ epc' = "heuristics"
  /\ UNCHANGED <<handlerVars, content, lastIndex, blocks, scanned, patternIdx>>

SkipHeuristics ==
  /\ epc = "check"
  /\ ~RunHeuristics(blocks)
  /\ epc' = "return"
  /\ UNCHANGED <<handlerVars, content, lastIndex, blocks, scanned, patternIdx>>

\* one iteration of the for loop
ApplyPattern ==
  /\ epc = "heuristics"
  /\ patternIdx < NumPatterns
  /\ blocks' = blocks \o codeLikeMatches(patternIdx + 1, content, 1)
  /\ patternIdx' = patternIdx + 1
  /\ UNCHANGED <<handlerVars, content, lastIndex, scanned, epc>>

HeuristicsEnd ==
  /\ epc = "heuristics"
  /\ patternIdx = NumPatterns
  /\ epc' = "return"
  /\ UNCHANGED <<handlerVars, content, lastIndex, blocks, scanned, patternIdx>>

\* ------------------------------------------------------------------ specs
Next ==
  \/ \E r \in Reqs, n \in OtherToolNames, a \in Arguments : HandleUnknownTool(r, n, a)
  \/ \E r \in Reqs, a \in Arguments : HandleInvalidArguments(r, a)
  \/ \E r \in Reqs, a \in Arguments : StartSearch(r, a)
  \/ \E r \in Reqs, a \in Arguments : StartNoCase(r, a)
  \/ \E r \in Reqs, v \in ResultSets : ProviderFulfil(r, v)
  \/ \E r \in Reqs, e \in ThrownValues : ProviderReject(r, e)
  \/ \E r \in Reqs : ResumeSearch(r)
  \/ \E r \in Reqs : ReturnResult(r)
  \/ \E r \in Reqs : CatchError(r)
  \/ \E r \in Reqs : CatchThrows(r)

Spec == Init /\ [][Next]_vars

NextConc ==
  \/ \E r \in Reqs, a \in ConcArguments : HandleInvalidArguments(r, a)
  \/ \E r \in Reqs, a \in ConcArguments : StartSearch(r, a)
  \/ \E r \in Reqs, v \in ConcResultSets : ProviderFulfil(r, v)
  \/ \E r \in Reqs, e \in ConcThrownValues : ProviderReject(r, e)
  \/ \E r \in Reqs : ResumeSearch(r)
  \/ \E r \in Reqs : ReturnResult(r)
  \/ \E r \in Reqs : CatchError(r)

SpecConc == InitConc /\ [][NextConc]_vars

NextExtract ==
  \/ ScanMatch
  \/ ScanEnd
  \/ EnterHeuristics
  \/ SkipHeuristics
  \/ ApplyPattern
  \/ HeuristicsEnd

SpecExtract == InitExtract /\ [][NextExtract]_vars

\* the run of extractCodeBlocks ends with what the operator computes
ExtractRunAgrees == epc = "return" => blocks = extractCodeBlocks(content)

\* ----------------------------------------------------------------- claims
Name(r) == Val(params[r]).name
Args(r) == Val(params[r]).arguments
Text(r) == Val(response[r]).content[1].text

\* the arguments are absent, not an object, or have no 'query' field
MissingQuery(args) == args.kind # "object" \/ "query" \notin DOMAIN args.fields

\* C1: a "search" call whose arguments are absent, not an object or without
\* a 'query' field returns the fixed invalid-arguments text, and tvly.search
\* is never called for that request.
C1_MissingQueryNoProviderCall ==
  \A r \in Reqs :
    (params[r] # None /\ Name(r) = "search" /\ MissingQuery(Args(r)))
      => /\ calls[r] = <<>>
         /\ promise[r] = NoPromise
         /\ pc[r] = "done"
         /\ response[r] = Some(TextResponse(InvalidArgumentsText))

C1_Witness ==
  \E r \in Reqs :
    /\ pc[r] = "done"
    /\ Name(r) = "search"
    /\ Args(r).kind = "object"
    /\ DOMAIN Args(r).fields = {"type"}
    /\ Text(r) = InvalidArgumentsText

\* c and d are the same letter up to case, d being lower case or no letter
SameIgnoringCase(c, d) ==
  c = d \/ \E k \in 1..26 : c = UpperLetters[k] /\ d = LowerLetters[k]

\* message m contains word (given in lower case), case ignored
Mentions(m, word) ==
  \E i \in 1..Len(m) :
    /\ i + Len(word) - 1 <= Len(m)
    /\ \A j \in 1..Len(word) : SameIgnoringCase(m[i + j - 1], word[j])

\* the failure carries a non-empty message: an Error's message or a thrown string
HasMessage(error) == error.kind \in {"Error", "string"} /\ error.message # <<>>

Failed(r) == pc[r] = "done" /\ promise[r].state = "rejected"

\* C2: after a provider failure the text is chosen from the failure message,
\* case ignored: "api_key" gives the authentication text, else "rate limit"
\* gives the rate-limit text, else the generic text followed by the raw
\* message; a message with both gives the authentication text.
C2_FailureClassification ==
  \A r \in Reqs :
    (Failed(r) /\ HasMessage(promise[r].error))
      => LET m == promise[r].error.message
         IN  /\ Mentions(m, ApiKeyWord) => Text(r) = AuthenticationText
             /\ (~Mentions(m, ApiKeyWord) /\ Mentions(m, RateLimitWord))
                  => Text(r) = RateLimitText
             /\ (~Mentions(m, ApiKeyWord) /\ ~Mentions(m, RateLimitWord))
                  => Text(r) = UnexpectedPrefix \o Str(m)

C2_Witness ==
  \E r \in Reqs :
    /\ Failed(r)
    /\ HasMessage(promise[r].error)
    /\ Mentions(promise[r].error.message, ApiKeyWord)
    /\ Mentions(promise[r].error.message, RateLimitWord)
    /\ IndexOfFrom(toLowerCase(promise[r].error.message), RateLimitWord, 1) = 1
    /\ Text(r) = AuthenticationText

\* C3: every tool call ends with a response whose content list holds exactly
\* one text item, and no provider failure leaves the handler as an exception.
C3_AlwaysOneTextItem ==
  \A r \in Reqs :
    /\ pc[r] # "threw"
    /\ pc[r] = "done"
         => /\ response[r] # None
            /\ Len(Val(response[r]).content) = 1
            /\ Val(response[r]).content[1].type = "text"

\* the options of section 4.2 of the specification
PolicyTable ==
  [code  |-> [maxResults |-> 3, searchDepth |-> "advanced",
              includeAnswer |-> TRUE, includeRawContent |-> TRUE],
   docs  |-> [maxResults |-> 2, searchDepth |-> "basic",
              includeAnswer |-> TRUE, includeRawContent |-> TRUE],
   debug |-> [maxResults |-> 5, searchDepth |-> "advanced",
              includeAnswer |-> TRUE, includeRawContent |-> TRUE],
   learn |-> [maxResults |-> 3, searchDepth |-> "basic",
              includeAnswer |-> TRUE, includeRawContent |-> TRUE]]

\* the category a request asks for: its 'type', or code when it has none
Requested(r) ==
  IF "type" \in DOMAIN Args(r).fields /\ Args(r).fields.type # ""
  THEN Args(r).fields.type
  ELSE "code"

\* C4: for each of the four categories tvly.search is called with exactly
\* the options of the policy table.
C4_PolicyTableOptions ==
  \A r \in Reqs :
    \A i \in DOMAIN calls[r] :
      /\ Requested(r) \in Categories
      /\ calls[r][i].options = PolicyTable[Requested(r)]

C4_Witness ==
  \E r \in Reqs :
    /\ Len(calls[r]) = 1
    /\ Requested(r) = "docs"
    /\ calls[r][1].options.maxResults = 2
    /\ calls[r][1].options.searchDepth = "basic"

\* a search call with a query and a 'type' outside the four categories
UnknownCategory(r) ==
  /\ pc[r] = "done"
  /\ Name(r) = "search"
  /\ ~MissingQuery(Args(r))
  /\ Requested(r) \notin Categories

\* C5 as stated: such a call passes the value through, consumes one provider
\* call and answers with the "nothing relevant" text.
C5_Original ==
  \A r \in Reqs :
    UnknownCategory(r)
      => /\ type[r] = Some(Requested(r))
         /\ Len(calls[r]) = 1
         /\ Text(r) = NothingRelevant

\* C5 amended: such a call passes the value through, makes no provider call
\* and answers with the "no results were found" text.
C5_UnknownCategoryNoCall ==
  \A r \in Reqs :
    UnknownCategory(r)
      => /\ type[r] = Some(Requested(r))
         /\ calls[r] = <<>>
         /\ promise[r] = NoPromise
         /\ Text(r) = NoResultsFound

C5_Witness ==
  \E r \in Reqs :
    /\ UnknownCategory(r)
    /\ Requested(r) = "news"
    /\ Text(r) = NoResultsFound

\* the formatter ran for r on a present result set with an empty results
\* sequence and an absent or empty answer
EmptyResultSet(r) ==
  /\ pc[r] \in {"await_format", "done"}
  /\ results[r] # None
  /\ Val(results[r]).results = Some(<<>>)
  /\ Val(results[r]).answer \in {None, Some("")}

\* C6: for every category, such a result set is formatted as exactly the
\* "nothing relevant" text.
C6_EmptyResultSetNothingRelevant ==
  \A r \in Reqs :
    (EmptyResultSet(r) /\ type[r] # None /\ Val(type[r]) \in Categories)
      => Val(processedResults[r]).text = NothingRelevant

\* positions of event e in an event list
At(evs, e) == {i \in 1..Len(evs) : evs[i] = e}

\* C7: within one request validation comes first and the response last; the
\* provider is called at most once; formatting starts only after the call
\* has resolved; after a failure of the call no further call is made.
C7_RequestEventOrder ==
  \A r \in Reqs :
    LET evs == events[r]
    IN  /\ evs # <<>> => At(evs, "validate") = {1}
        /\ Cardinality(At(evs, "call")) <= 1
        /\ Cardinality(At(evs, "format")) <= 1
        /\ At(evs, "respond") \subseteq {Len(evs)}
        /\ \A c \in At(evs, "call") : \A f \in At(evs, "format") :
             \E s \in At(evs, "resolved") : c < s /\ s < f
        /\ \A f \in At(evs, "format") :
             \A s \in At(evs, "resolved") \cup At(evs, "rejected") : s < f
        /\ \A x \in At(evs, "rejected") : \A c \in At(evs, "call") : c < x
        /\ Len(calls[r]) = Cardinality(At(evs, "call"))
        /\ (promise[r].state = "pending") => pc[r] = "await_search"

C7_Witness ==
  \E r \in Reqs :
    /\ events[r] = <<"validate", "call", "resolved", "format", "respond">>
    /\ Len(calls[r]) = 1
    /\ pc[r] = "done"

\* C8: with several requests in flight, two finished requests with the same
\* parameters and the same provider outcome have the same response, whatever
\* the other requests did in between; and the provider client never changes.
C8_RequestsIsolated ==
  /\ [](\A r1, r2 \in Reqs :
          (pc[r1] = "done" /\ pc[r2] = "done"
             /\ params[r1] = params[r2] /\ promise[r1] = promise[r2])
            => response[r1] = response[r2])
  /\ [][tvly' = tvly]_vars

C8_Witness ==
  \E r1, r2, r3 \in Reqs :
    /\ r1 # r2
    /\ pc[r1] = "done" /\ pc[r2] = "done"
    /\ params[r1] = params[r2]
    /\ promise[r1] = promise[r2]
    /\ promise[r1].state = "fulfilled"
    /\ response[r1] = response[r2]
    /\ pc[r3] = "await_search"
    /\ params[r3] # params[r1]

\* the fragments occur in s one after the other, from position i on
RECURSIVE OccurInOrder(_, _, _)
OccurInOrder(frags, s, i) ==
  \/ frags = <<>>
  \/ \E p \in i..Len(s) :
       /\ HasAt(s, Head(frags), p)
       /\ OccurInOrder(Tail(frags), s, p + Len(Head(frags)))

\* C9: the heuristics run if and only if the fenced/inline scan produced no
\* fragment; when the scan produced fragments the result is exactly those,
\* in order of appearance, each trimmed and non-empty.
C9_ExtractorShortCircuit ==
  epc = "return"
    => /\ (patternIdx > 0) <=> (scanned = <<>>)
       /\ scanned # <<>>
            => /\ blocks = scanned
               /\ \A i \in 1..Len(blocks) :
                    /\ blocks[i] # <<>>
                    /\ ~IsSpace(blocks[i][1])
                    /\ ~IsSpace(blocks[i][Len(blocks[i])])
               /\ OccurInOrder(blocks, content, 1)

C9_Witness ==
  /\ epc = "return"
  /\ Len(scanned) = 2
  /\ blocks = scanned
  /\ codeLikeMatches(1, content, 1) # <<>>
  /\ patternIdx = 0

\* the lines the claim gives for the k-th hit, k counted from 1
RECURSIVE FragmentLines(_)
FragmentLines(frags) ==
  IF frags = <<>> THEN <<>>
  ELSE <<"\nCode:", Str(Head(frags))>> \o FragmentLines(Tail(frags))

ExpectedBlock(k, hit) ==
  <<"Example " \o ToString(k) \o ":", "Source: " \o hit.url>>
    \o FragmentLines(IF hit.rawContent = None THEN <<>>
                     ELSE extractCodeBlocks(Val(hit.rawContent)))
    \o (IF hit.content \in {None, Some("")} THEN <<>>
        ELSE <<"\nDescription:", Val(hit.content)>>)
    \o <<"">>

RECURSIVE ExpectedBlocks(_, _)
ExpectedBlocks(hits, k) ==
  IF k > Len(hits) THEN <<>>
  ELSE ExpectedBlock(k, hits[k]) \o ExpectedBlocks(hits, k + 1)

\* the formatter ran for r with category code on a result set with hits
FormattedCode(r) ==
  /\ pc[r] \in {"await_format", "done"}
  /\ type[r] = Some("code")
  /\ results[r] # None
  /\ Val(results[r]).results # None

\* C10: for category code the report has, after its header and overview
\* lines, one block per hit in the provider's order: "Example k:", the
\* source line, a "Code:" sub-header and fragment per extracted fragment,
\* a "Description:" sub-header and the content when there is content, and
\* a blank line.
C10_CodeReportBlocks ==
  \A r \in Reqs :
    FormattedCode(r)
      => LET lines    == responseText[r]
             expected == ExpectedBlocks(Val(Val(results[r]).results), 1)
             before   == Len(lines) - Len(expected)
         IN  /\ before \in {1, 3}
             /\ SubSeq(lines, before + 1, Len(lines)) = expected
             /\ Val(processedResults[r]).text = join(lines)

C10_Witness ==
  \E r \in Reqs :
    /\ FormattedCode(r)
    /\ Len(Val(Val(results[r]).results)) = 2
    /\ Val(Val(results[r]).results)[1].rawContent = None
    /\ Val(Val(results[r]).results)[2].rawContent = Some(RawFenced)
    /\ Len(responseText[r]) >= 10

=============================================================================
